---- MODULE Spec2Model ----
(***************************************************************************)
(* The summary generation pipeline (ai-summary.py, main) and the footer    *)
(* parser of the token-accounting scanner (count_tokens.py).               *)
(*                                                                         *)
(* One invocation of ai-summary.py is a process p.  Its local variables    *)
(* live in st[p]; the output document of the date is the shared outFile.   *)
(* Numbers a usage object may carry are kept in halves (field h), so that  *)
(* the float 1.5 is h = 3 and the int 1234 is h = 2468.                    *)
(***************************************************************************)
EXTENDS Integers, Sequences, FiniteSets, TLC

\* Number of invocations started in one behaviour.
MaxRuns == 3

Procs == {1, 2}

---------------------------------------------------------------------------
(* Python values of a usage field *)

None == [k |-> "none", h |-> 0]
Num(h) == [k |-> "num", h |-> h]
Str == [k |-> "str", h |-> 0]

\* -1, 1.5, 1234 and a string that is no number
PrimaryValues == {None, Num(-2), Num(3), Num(2468), Str}
\* 1234567 under the historical key names
FallbackValues == {None, Num(2469134)}
\* 1234 and 2468
TotalValues == {None, Num(2468), Num(4936)}

\* A response without usage (shape "none": every lookup is getattr(None, ...))
\* or a usage object; model_dump() turns it into a mapping, and an object
\* that cannot be dumped is looked up by getattr with the same results.
NoUsage ==
    [shape |-> "none", input_tokens |-> None, prompt_tokens |-> None,
     output_tokens |-> None, completion_tokens |-> None, total_tokens |-> None]

Usages ==
    {NoUsage} \cup
    [shape : {"dict"}, input_tokens : PrimaryValues, prompt_tokens : FallbackValues,
     output_tokens : PrimaryValues, completion_tokens : FallbackValues,
     total_tokens : TotalValues]

\* isinstance(t, (int, float))
IsNumeric(v) == v.k = "num"

\* int(v) of a number: truncation toward zero
PyInt(v) == IF v.h >= 0 THEN v.h \div 2 ELSE -((-v.h) \div 2)

\* int(v) raises ValueError
IntRaises(v) == v.k = "str"

---------------------------------------------------------------------------
(* Usage extraction *)

\* fallback = "" stands for fallback=None
uget(usage, primary, fallback) ==
    IF usage.shape = "dict"
    THEN LET val == usage[primary]
         IN IF val = None /\ fallback # "" THEN usage[fallback] ELSE val
    ELSE None

SumParts(inp, out) ==
    (IF IsNumeric(inp) THEN inp.h ELSE 0) + (IF IsNumeric(out) THEN out.h ELSE 0)

\* mutant: the total is reconstructed only when both parts are numeric
ReconstructTotalBoth(inp, out) ==
    IF IsNumeric(inp) /\ IsNumeric(out)
    THEN Num(2 * PyInt(Num(SumParts(inp, out))))
    ELSE None

ReconstructTotal(inp, out) ==
    IF IsNumeric(inp) \/ IsNumeric(out)
    THEN Num(2 * PyInt(Num(SumParts(inp, out))))
    ELSE None

ExtractTokens(usage) ==
    LET inp == uget(usage, "input_tokens", "prompt_tokens")
        out == uget(usage, "output_tokens", "completion_tokens")
        tot == uget(usage, "total_tokens", "")
    IN [inp |-> inp, out |-> out,
        tot |-> IF tot = None THEN ReconstructTotal(inp, out) ELSE tot]

NoTokens == [inp |-> None, out |-> None, tot |-> None]

---------------------------------------------------------------------------
(* Rendering: text is a sequence of lexemes, one character each except     *)
(* for the fixed labels.                                                   *)

DigitChar == <<"0", "1", "2", "3", "4", "5", "6", "7", "8", "9">>

RECURSIVE Digits(_)
Digits(n) ==
    IF n < 10 THEN <<DigitChar[n + 1]>>
    ELSE Append(Digits(n \div 10), DigitChar[(n % 10) + 1])

RECURSIVE Group(_)
Group(ds) ==
    IF Len(ds) <= 3 THEN ds
    ELSE Group(SubSeq(ds, 1, Len(ds) - 3)) \o <<",">> \o SubSeq(ds, Len(ds) - 2, Len(ds))

\* format(n, ',')
FormatComma(n) == IF n < 0 THEN <<"-">> \o Group(Digits(-n)) ELSE Group(Digits(n))

\* mutant: "if v" for "if v is not None", so that 0 is rendered n/a
RenderFieldTruthy(v) ==
    IF v = None \/ (v.k = "num" /\ v.h = 0) THEN <<"n", "/", "a">> ELSE FormatComma(PyInt(v))

\* format(int(v), ',') if v is not None else 'n/a'
RenderField(v) == IF v = None THEN <<"n", "/", "a">> ELSE FormatComma(PyInt(v))

RenderRaises(toks) ==
    \E v \in {toks.inp, toks.out, toks.tot} : v # None /\ IntRaises(v)

Footer(toks) ==
    <<"Input tokens:", " ">> \o RenderField(toks.inp)
    \o <<" ", "|", " ", "Output tokens:", " ">> \o RenderField(toks.out)
    \o <<" ", "|", " ", "Total tokens:", " ">> \o RenderField(toks.tot)
    \o <<".", "_">>

FinalMarkdown(toks) ==
    <<"# ", "date", "\n", "\n", "content", "\n", "\n", "disclaimer", "<br>">> \o Footer(toks)

---------------------------------------------------------------------------
(* The scanner's footer parser *)

IsFieldChar(c) == c \in {DigitChar[i] : i \in 1..10} \cup {","}

\* \s*
RECURSIVE SkipWs(_, _)
SkipWs(t, i) == IF i <= Len(t) /\ t[i] \in {" ", "\n"} THEN SkipWs(t, i + 1) ELSE i

\* [\d,]+ is greedy; what may follow it (\s, |, end of pattern) is disjoint
\* from it, so the longest run is the only candidate.
RECURSIVE FieldEnd(_, _)
FieldEnd(t, i) == IF i <= Len(t) /\ IsFieldChar(t[i]) THEN FieldEnd(t, i + 1) ELSE i

LitAt(t, i, lit) == i <= Len(t) /\ t[i] = lit

\* TOKEN_LINE_RE anchored at lexeme i
MatchAt(t, i) ==
    LET s1 == SkipWs(t, i + 1)
        e1 == FieldEnd(t, s1)
        b1 == SkipWs(t, e1)
        c1 == SkipWs(t, b1 + 1)
        s2 == SkipWs(t, c1 + 1)
        e2 == FieldEnd(t, s2)
        b2 == SkipWs(t, e2)
        c2 == SkipWs(t, b2 + 1)
        s3 == SkipWs(t, c2 + 1)
        e3 == FieldEnd(t, s3)
        ok == /\ LitAt(t, i, "Input tokens:")
              /\ e1 > s1
              /\ LitAt(t, b1, "|")
              /\ LitAt(t, c1, "Output tokens:")
              /\ e2 > s2
              /\ LitAt(t, b2, "|")
              /\ LitAt(t, c2, "Total tokens:")
              /\ e3 > s3
    IN IF ok
       THEN [ok |-> TRUE, g1 |-> SubSeq(t, s1, e1 - 1), g2 |-> SubSeq(t, s2, e2 - 1),
             g3 |-> SubSeq(t, s3, e3 - 1)]
       ELSE [ok |-> FALSE, g1 |-> <<>>, g2 |-> <<>>, g3 |-> <<>>]

DigitVal(c) == CHOOSE d \in 0..9 : DigitChar[d + 1] = c

RECURSIVE DigitsToInt(_)
DigitsToInt(ds) ==
    IF Len(ds) = 0 THEN 0
    ELSE 10 * DigitsToInt(SubSeq(ds, 1, Len(ds) - 1)) + DigitVal(ds[Len(ds)])

\* int(s.replace(",", "").strip())
to_int(s) == DigitsToInt(SelectSeq(s, LAMBDA c : c # ","))

NotFound == [found |-> FALSE, inp |-> 0, out |-> 0, tot |-> 0]

\* TOKEN_LINE_RE.search(text): the leftmost match
parse_token_line(text) ==
    LET hits == {i \in 1..Len(text) : MatchAt(text, i).ok}
    IN IF hits = {} THEN NotFound
       ELSE LET i == CHOOSE j \in hits : \A l \in hits : j <= l
                m == MatchAt(text, i)
            IN [found |-> TRUE, inp |-> to_int(m.g1), out |-> to_int(m.g2),
                tot |-> to_int(m.g3)]

---------------------------------------------------------------------------
(* State *)

VARIABLES
    st,          \* st[p]: the local state of invocation p
    outFile,     \* the document at output_path
    inputExists, \* whether input_path exists
    nruns,       \* invocations started so far
    nwrites,     \* how many times outFile was changed
    everForced   \* whether an invocation with --force was started

vars == <<st, outFile, inputExists, nruns, nwrites, everForced>>

NoFile == [k |-> "absent", text |-> <<>>]

\* what open(output_path, "w") followed by a failing write leaves: the
\* truncated file, or a beginning of the text
PartialFiles(text) == {[k |-> "partial", text |-> SubSeq(text, 1, n)] : n \in {0, 5}}

Configs == [key : BOOLEAN, endpoint : BOOLEAN, model : BOOLEAN]

Dates == {"missing", "malformed", "valid"}

Idle ==
    [pc |-> "idle", date |-> "missing", force |-> FALSE,
     cfg |-> [key |-> FALSE, endpoint |-> FALSE, model |-> FALSE],
     usage |-> NoUsage, toks |-> NoTokens, markdown |-> <<>>,
     exit |-> -1, term |-> "none", calls |-> 0, file0 |-> NoFile, trail |-> <<>>]

Init ==
    /\ st = [p \in Procs |-> Idle]
    /\ outFile = NoFile
    /\ inputExists \in BOOLEAN
    /\ nruns = 0
    /\ nwrites = 0
    /\ everForced = FALSE

\* the invocation moves on to stage pc
Goto(s, pc) == [s EXCEPT !.pc = pc, !.trail = Append(s.trail, pc)]

\* sys.exit(code), or the end of main
Exit(s, code, term) ==
    [s EXCEPT !.pc = "done", !.exit = code, !.term = term, !.trail = Append(s.trail, term)]

---------------------------------------------------------------------------
(* Steps of main *)

\* a new process: the environment is read at import, the arguments parsed
Start(p) ==
    /\ st[p].pc = "idle"
    /\ nruns < MaxRuns
    /\ \E d \in Dates, f \in BOOLEAN, c \in Configs :
          /\ st' = [st EXCEPT ![p] = [Idle EXCEPT !.pc = "start", !.date = d, !.force = f,
                                                  !.cfg = c, !.file0 = outFile,
                                                  !.trail = <<"start">>]]
          /\ everForced' = (everForced \/ f)
    /\ nruns' = nruns + 1
    /\ UNCHANGED <<outFile, inputExists, nwrites>>

CheckDate(p) ==
    /\ st[p].pc = "start"
    /\ st' = [st EXCEPT ![p] =
                IF st[p].date = "missing" THEN Exit(@, 1, "no-date")
                ELSE IF st[p].date = "malformed" THEN Exit(@, 2, "bad-date")
                ELSE Goto(@, "parsed")]
    /\ UNCHANGED <<outFile, inputExists, nruns, nwrites, everForced>>

\* mutant: the existence of the input is not checked
CheckInputIgnored(p) ==
    /\ st[p].pc = "parsed"
    /\ st' = [st EXCEPT ![p] = Goto(@, "input-located")]
    /\ UNCHANGED <<outFile, inputExists, nruns, nwrites, everForced>>

CheckInput(p) ==
    /\ st[p].pc = "parsed"
    /\ st' = [st EXCEPT ![p] =
                IF ~inputExists THEN Exit(@, 3, "not-found")
                ELSE Goto(@, "input-located")]
    /\ UNCHANGED <<outFile, inputExists, nruns, nwrites, everForced>>

\* mutant: the existing output is never a reason to stop
CheckOutputNoSkip(p) ==
    /\ st[p].pc = "input-located"
    /\ st' = [st EXCEPT ![p] = Goto(@, "proceed")]
    /\ UNCHANGED <<outFile, inputExists, nruns, nwrites, everForced>>

\* mutant: the force flag is read the wrong way round
CheckOutputInverted(p) ==
    /\ st[p].pc = "input-located"
    /\ st' = [st EXCEPT ![p] =
                IF outFile.k # "absent" /\ st[p].force THEN Exit(@, 0, "skip")
                ELSE Goto(@, "proceed")]
    /\ UNCHANGED <<outFile, inputExists, nruns, nwrites, everForced>>

\* mutant: with --force the existing output is removed at once
CheckOutputRemoves(p) ==
    /\ st[p].pc = "input-located"
    /\ st' = [st EXCEPT ![p] =
                IF outFile.k # "absent" /\ ~st[p].force THEN Exit(@, 0, "skip")
                ELSE Goto(@, "proceed")]
    /\ outFile' = IF st[p].force THEN NoFile ELSE outFile
    /\ UNCHANGED <<inputExists, nruns, nwrites, everForced>>

CheckOutput(p) ==
    /\ st[p].pc = "input-located"
    /\ st' = [st EXCEPT ![p] =
                IF outFile.k # "absent" /\ ~st[p].force THEN Exit(@, 0, "skip")
                ELSE Goto(@, "proceed")]
    /\ UNCHANGED <<outFile, inputExists, nruns, nwrites, everForced>>

ReadInput(p) ==
    /\ st[p].pc = "proceed"
    /\ \/ st' = [st EXCEPT ![p] = Goto(@, "input-read")]
       \/ st' = [st EXCEPT ![p] = Exit(@, 4, "read-failed")]
    /\ UNCHANGED <<outFile, inputExists, nruns, nwrites, everForced>>

\* mutant: only the api key is required
CheckConfigKeyOnly(p) ==
    /\ st[p].pc = "input-read"
    /\ st' = [st EXCEPT ![p] =
                IF ~st[p].cfg.key THEN Exit(@, 7, "no-config")
                ELSE Goto(@, "config-resolved")]
    /\ UNCHANGED <<outFile, inputExists, nruns, nwrites, everForced>>

CheckConfig(p) ==
    /\ st[p].pc = "input-read"
    /\ st' = [st EXCEPT ![p] =
                IF ~st[p].cfg.key \/ ~st[p].cfg.endpoint \/ ~st[p].cfg.model
                THEN Exit(@, 7, "no-config")
                ELSE Goto(@, "config-resolved")]
    /\ UNCHANGED <<outFile, inputExists, nruns, nwrites, everForced>>

\* mutant: a failed call is tried once more
RemoteCallRetry(p) ==
    /\ st[p].pc = "config-resolved"
    /\ \/ \E u \in Usages :
             st' = [st EXCEPT ![p] = [Goto(@, "remote-call-complete")
                                        EXCEPT !.calls = @ + 1, !.usage = u]]
       \/ \E u \in Usages :
             st' = [st EXCEPT ![p] = [Goto(@, "remote-call-complete")
                                        EXCEPT !.calls = @ + 2, !.usage = u]]
       \/ st' = [st EXCEPT ![p] = [Exit(@, 5, "call-failed") EXCEPT !.calls = @ + 2]]
    /\ UNCHANGED <<outFile, inputExists, nruns, nwrites, everForced>>

RemoteCall(p) ==
    /\ st[p].pc = "config-resolved"
    /\ \/ \E u \in Usages :
             st' = [st EXCEPT ![p] = [Goto(@, "remote-call-complete")
                                        EXCEPT !.calls = @ + 1, !.usage = u]]
       \/ st' = [st EXCEPT ![p] = [Exit(@, 5, "call-failed") EXCEPT !.calls = @ + 1]]
    /\ UNCHANGED <<outFile, inputExists, nruns, nwrites, everForced>>

ExtractUsage(p) ==
    /\ st[p].pc = "remote-call-complete"
    /\ st' = [st EXCEPT ![p] = [Goto(@, "metrics-extracted")
                                  EXCEPT !.toks = ExtractTokens(st[p].usage)]]
    /\ UNCHANGED <<outFile, inputExists, nruns, nwrites, everForced>>

\* the prints and the disclaimer; an exception here is caught by nobody and
\* the interpreter ends the process with status 1
Render(p) ==
    /\ st[p].pc = "metrics-extracted"
    /\ st' = [st EXCEPT ![p] =
                IF RenderRaises(st[p].toks) THEN Exit(@, 1, "crash")
                ELSE [Goto(@, "rendered") EXCEPT !.markdown = FinalMarkdown(st[p].toks)]]
    /\ UNCHANGED <<outFile, inputExists, nruns, nwrites, everForced>>

\* mutant: the file is opened for exclusive creation and an existing one kept
WriteOutputExclusive(p) ==
    /\ st[p].pc = "rendered"
    /\ \/ /\ outFile' = IF outFile.k = "absent"
                        THEN [k |-> "doc", text |-> st[p].markdown] ELSE outFile
          /\ st' = [st EXCEPT ![p] = Exit(@, 0, "written")]
       \/ /\ outFile' = outFile
          /\ st' = [st EXCEPT ![p] = Exit(@, 6, "write-failed")]
    /\ nwrites' = IF outFile' # outFile THEN nwrites + 1 ELSE nwrites
    /\ UNCHANGED <<inputExists, nruns, everForced>>

\* mutant: the write looks at the output again and gives way to a file that
\* appeared since the run began
WriteOutputRechecks(p) ==
    /\ st[p].pc = "rendered"
    /\ \/ /\ outFile = st[p].file0
          /\ outFile' = [k |-> "doc", text |-> st[p].markdown]
          /\ st' = [st EXCEPT ![p] = Exit(@, 0, "written")]
       \/ /\ outFile # st[p].file0
          /\ outFile' = outFile
          /\ st' = [st EXCEPT ![p] = Exit(@, 0, "skip")]
       \/ /\ outFile' = outFile
          /\ st' = [st EXCEPT ![p] = Exit(@, 6, "write-failed")]
    /\ nwrites' = IF outFile' # outFile THEN nwrites + 1 ELSE nwrites
    /\ UNCHANGED <<inputExists, nruns, everForced>>

WriteOutput(p) ==
    /\ st[p].pc = "rendered"
    /\ \/ /\ outFile' = [k |-> "doc", text |-> st[p].markdown]
          /\ st' = [st EXCEPT ![p] = Exit(@, 0, "written")]
       \/ /\ outFile' = outFile
          /\ st' = [st EXCEPT ![p] = Exit(@, 6, "write-failed")]
       \/ /\ outFile' \in PartialFiles(st[p].markdown)
          /\ st' = [st EXCEPT ![p] = Exit(@, 6, "write-failed")]
    /\ nwrites' = IF outFile' # outFile THEN nwrites + 1 ELSE nwrites
    /\ UNCHANGED <<inputExists, nruns, everForced>>

\* the process is gone
Reap(p) ==
    /\ st[p].pc = "done"
    /\ st' = [st EXCEPT ![p] = Idle]
    /\ UNCHANGED <<outFile, inputExists, nruns, nwrites, everForced>>

Step(p) ==
    \/ CheckDate(p)
    \/ CheckInput(p)
    \/ CheckOutput(p)
    \/ ReadInput(p)
    \/ CheckConfig(p)
    \/ RemoteCall(p)
    \/ ExtractUsage(p)
    \/ Render(p)
    \/ WriteOutput(p)
    \/ Reap(p)

\* invocations one after the other
Next ==
    \E p \in Procs :
        \/ (\A q \in Procs : st[q].pc = "idle") /\ Start(p)
        \/ Step(p)

Spec == Init /\ [][Next]_vars

---------------------------------------------------------------------------
(* Invocations at the same time: nothing in main keeps a second process    *)
(* from starting while the first one runs.  The invocations are given a    *)
(* valid date and complete configuration, and the service answers with or  *)
(* without usage.                                                          *)

ConcUsages ==
    {NoUsage,
     [shape |-> "dict", input_tokens |-> Num(2468), prompt_tokens |-> None,
      output_tokens |-> Num(2468), completion_tokens |-> None, total_tokens |-> None]}

ConcStart(p) ==
    /\ st[p].pc = "idle"
    /\ nruns < MaxRuns
    /\ \E f \in BOOLEAN :
          /\ st' = [st EXCEPT ![p] = [Idle EXCEPT !.pc = "start", !.date = "valid", !.force = f,
                                                  !.cfg = [key |-> TRUE, endpoint |-> TRUE,
                                                           model |-> TRUE],
                                                  !.file0 = outFile,
                                                  !.trail = <<"start">>]]
          /\ everForced' = (everForced \/ f)
    /\ nruns' = nruns + 1
    /\ UNCHANGED <<outFile, inputExists, nwrites>>

ConcRemoteCall(p) ==
    /\ st[p].pc = "config-resolved"
    /\ \/ \E u \in ConcUsages :
             st' = [st EXCEPT ![p] = [Goto(@, "remote-call-complete")
                                        EXCEPT !.calls = @ + 1, !.usage = u]]
       \/ st' = [st EXCEPT ![p] = [Exit(@, 5, "call-failed") EXCEPT !.calls = @ + 1]]
    /\ UNCHANGED <<outFile, inputExists, nruns, nwrites, everForced>>

ConcNext ==
    \E p \in Procs :
        \/ ConcStart(p)
        \/ CheckDate(p)
        \/ CheckInput(p)
        \/ CheckOutput(p)
        \/ ReadInput(p)
        \/ CheckConfig(p)
        \/ ConcRemoteCall(p)
        \/ ExtractUsage(p)
        \/ Render(p)
        \/ WriteOutput(p)
        \/ Reap(p)

ConcSpec == Init /\ [][ConcNext]_vars

---------------------------------------------------------------------------
(* Vocabulary of the properties *)

Reached(p, stage) == \E i \in 1..Len(st[p].trail) : st[p].trail[i] = stage

Finished(p) == st[p].pc = "done"

Started(p) == st[p].pc # "idle"

ConfigComplete(p) == st[p].cfg.key /\ st[p].cfg.endpoint /\ st[p].cfg.model

\* the lexemes of a footer field, read off a document's text
FieldOf(text, label) ==
    LET i == CHOOSE j \in 1..Len(text) : text[j] = label
        e == CHOOSE j \in (i + 2)..Len(text) :
                 /\ text[j] \in {" ", "."}
                 /\ \A l \in (i + 2)..(j - 1) : text[l] \notin {" ", "."}
    IN SubSeq(text, i + 2, e - 1)

Unknown(field) == field = <<"n", "/", "a">>

ValueOf(field) ==
    IF field[1] = "-" THEN -to_int(Tail(field)) ELSE to_int(field)

DocInput(f) == FieldOf(f.text, "Input tokens:")
DocOutput(f) == FieldOf(f.text, "Output tokens:")
DocTotal(f) == FieldOf(f.text, "Total tokens:")

---------------------------------------------------------------------------
(* C1 *)

\* C1: a run with a valid date, a present input, an existing output and no
\* --force issues no remote call, leaves the output as it found it, and ends
\* with exit signal 0 (the skip).
C1_UnforcedExistingIsSkipped ==
    \A p \in Procs :
        (/\ Started(p)
         /\ st[p].date = "valid"
         /\ inputExists
         /\ st[p].file0.k # "absent"
         /\ ~st[p].force)
        => /\ st[p].calls = 0
           /\ outFile = st[p].file0
           /\ ~Reached(p, "proceed")
           /\ Finished(p) => (st[p].exit = 0 /\ st[p].term = "skip")

C1_Witness ==
    \E p \in Procs :
        /\ Finished(p) /\ st[p].date = "valid" /\ inputExists /\ ~st[p].force
        /\ st[p].file0.k = "doc" /\ st[p].exit = 0 /\ st[p].calls = 0
        /\ outFile = st[p].file0
        /\ ~ConfigComplete(p)

---------------------------------------------------------------------------
(* C2 *)

\* C2: a run with --force over an existing output, with a valid date, a
\* present input that was read and complete configuration, issues exactly
\* one remote call; when the call and the write succeed, the output is the
\* document this run rendered.
C2_ForcedRunCallsOnceAndOverwrites ==
    \A p \in Procs :
        (/\ Finished(p)
         /\ st[p].date = "valid"
         /\ inputExists
         /\ st[p].exit # 4
         /\ ConfigComplete(p)
         /\ st[p].file0.k # "absent"
         /\ st[p].force)
        => /\ st[p].calls = 1
           /\ st[p].term = "written" =>
                 /\ st[p].exit = 0
                 /\ outFile = [k |-> "doc", text |-> st[p].markdown]
                 /\ st[p].markdown = FinalMarkdown(ExtractTokens(st[p].usage))

C2_Witness ==
    \E p \in Procs :
        /\ Finished(p) /\ st[p].force /\ st[p].file0.k = "doc"
        /\ st[p].term = "written" /\ st[p].calls = 1
        /\ outFile # st[p].file0
        /\ outFile.text = st[p].markdown

---------------------------------------------------------------------------
(* C3 *)

\* C3: over sequential runs the output changes only in a run that found no
\* output or was given --force; while no run was forced the output is
\* written at most once.
C3_WrittenOnceUnlessForced ==
    /\ [](~everForced => nwrites <= 1)
    /\ [][outFile' # outFile =>
            \E p \in Procs : /\ st[p].pc = "rendered"
                             /\ (st[p].file0.k = "absent" \/ st[p].force)]_vars

C3_Witness ==
    /\ ~everForced
    /\ nwrites = 1
    /\ nruns >= 2
    /\ \E p \in Procs : Finished(p) /\ st[p].term = "skip" /\ outFile = st[p].file0

---------------------------------------------------------------------------
(* C4 *)

---------------------------------------------------------------------------
(* C5 *)

\* C5: every finished run carries one exit signal of the table 0..7 and the
\* signal names its cause: 0 only for written or skip, 1 only for a missing
\* date, 2 only for a malformed date, 3 only for an absent input, 4 only for
\* a read failure, 5 only for a remote call failure, 6 only for a write
\* failure, 7 only for missing configuration.
C5_ExitSignalNamesCause ==
    \A p \in Procs :
        Finished(p) =>
            /\ st[p].exit \in 0..7
            /\ st[p].exit = 0 => st[p].term \in {"written", "skip"}
            /\ st[p].exit = 1 => (st[p].term = "no-date" /\ st[p].date = "missing")
            /\ st[p].exit = 2 => (st[p].term = "bad-date" /\ st[p].date = "malformed")
            /\ st[p].exit = 3 => (st[p].term = "not-found" /\ ~inputExists)
            /\ st[p].exit = 4 => st[p].term = "read-failed"
            /\ st[p].exit = 5 => st[p].term = "call-failed"
            /\ st[p].exit = 6 => st[p].term = "write-failed"
            /\ st[p].exit = 7 => (st[p].term = "no-config" /\ ~ConfigComplete(p))

---------------------------------------------------------------------------
(* C6 *)

StageOrder ==
    <<"start", "parsed", "input-located", "proceed", "input-read", "config-resolved",
      "remote-call-complete", "metrics-extracted", "rendered">>

\* the stages passed, without the terminal one
Stages(p) ==
    IF Finished(p) THEN SubSeq(st[p].trail, 1, Len(st[p].trail) - 1) ELSE st[p].trail

IsPrefix(a, b) == Len(a) <= Len(b) /\ a = SubSeq(b, 1, Len(a))

\* C6 as stated: configuration is validated before the input is located, so
\* a run (with a valid date) that lacks a required setting ends with signal
\* 7 and reaches neither input-located nor the skip.
C6_ConfigValidatedFirst ==
    \A p \in Procs :
        (Finished(p) /\ st[p].date = "valid" /\ ~ConfigComplete(p))
        => /\ st[p].exit = 7
           /\ ~Reached(p, "input-located")
           /\ ~Reached(p, "skip")

\* C6 amended: the stages are passed in the order start, date parsed,
\* input-located, existence check passed, input read, config-resolved,
\* remote-call-complete, metrics-extracted, rendered; configuration is
\* validated after the input was located, checked against the output and
\* read.  A run that lacks a required setting issues no remote call and
\* reaches no later stage; it ends with signal 7 exactly when it got as far
\* as reading the input, and with the signal of the earlier check otherwise.
C6_ConfigValidatedAfterInputRead ==
    \A p \in Procs :
        /\ Started(p) => IsPrefix(Stages(p), StageOrder)
        /\ (Started(p) /\ ~ConfigComplete(p)) =>
              /\ st[p].calls = 0
              /\ ~Reached(p, "config-resolved")
              /\ Finished(p) =>
                    /\ st[p].exit = 7 <=> Reached(p, "input-read")
                    /\ st[p].exit \in {0, 1, 2, 3, 4, 7}
                    /\ st[p].exit = 0 => st[p].term = "skip"

C6_Witness ==
    \E p \in Procs :
        /\ Finished(p) /\ ~ConfigComplete(p) /\ st[p].exit = 7
        /\ Reached(p, "input-located") /\ Reached(p, "input-read")
        /\ st[p].calls = 0

---------------------------------------------------------------------------
(* C7 *)

TotalSupplied(p) == uget(st[p].usage, "total_tokens", "") # None

Extracted(p) == Reached(p, "metrics-extracted")

\* C7 as stated: without a supplied total, the total is the (integer) sum of
\* input and output when both are numeric, and unknown in every other case.
C7_TotalOnlyFromBoth ==
    \A p \in Procs :
        (Extracted(p) /\ ~TotalSupplied(p)) =>
            LET t == st[p].toks
            IN IF IsNumeric(t.inp) /\ IsNumeric(t.out)
               THEN t.tot = Num(2 * PyInt(Num(t.inp.h + t.out.h)))
               ELSE t.tot = None

\* C7 amended: without a supplied total, the total is the integer part of
\* the sum of those of input and output that are numeric (of both, or of
\* the one that is), and is unknown only when neither is numeric.
C7_TotalFromNumericParts ==
    \A p \in Procs :
        (Extracted(p) /\ ~TotalSupplied(p)) =>
            LET t == st[p].toks
            IN /\ (IsNumeric(t.inp) /\ IsNumeric(t.out)) =>
                      t.tot = Num(2 * PyInt(Num(t.inp.h + t.out.h)))
               /\ (IsNumeric(t.inp) /\ ~IsNumeric(t.out)) => t.tot = Num(2 * PyInt(t.inp))
               /\ (~IsNumeric(t.inp) /\ IsNumeric(t.out)) => t.tot = Num(2 * PyInt(t.out))
               /\ (~IsNumeric(t.inp) /\ ~IsNumeric(t.out)) => t.tot = None

C7_Witness ==
    \E p \in Procs :
        /\ Extracted(p) /\ ~TotalSupplied(p)
        /\ IsNumeric(st[p].toks.inp) /\ st[p].toks.out = None
        /\ st[p].toks.tot = st[p].toks.inp
        /\ st[p].term = "written"

---------------------------------------------------------------------------
(* C8 *)

Present3(f) == ~Unknown(DocInput(f)) /\ ~Unknown(DocOutput(f)) /\ ~Unknown(DocTotal(f))

\* the token invariant of a persisted document
TokenInvariant(f) ==
    /\ \A field \in {DocInput(f), DocOutput(f), DocTotal(f)} :
          ~Unknown(field) => ValueOf(field) >= 0
    /\ Present3(f) => ValueOf(DocInput(f)) + ValueOf(DocOutput(f)) = ValueOf(DocTotal(f))

\* C8 as stated: every persisted document satisfies the token invariant,
\* whatever usage object the service returned: the counts present are
\* non-negative integers, and input + output = total when all three are
\* present.
C8_EveryDocumentKeepsTokenInvariant ==
    outFile.k = "doc" => TokenInvariant(outFile)

NonNegInt(v) == v.k = "num" /\ v.h >= 0 /\ v.h % 2 = 0

\* the usage carries only non-negative integer counts and, when it supplies
\* a total next to input and output, the total is their sum
CleanUsage(p) ==
    LET t == st[p].toks
    IN /\ \A v \in {t.inp, t.out, t.tot} : v # None => NonNegInt(v)
       /\ (TotalSupplied(p) /\ t.inp # None /\ t.out # None) => t.tot.h = t.inp.h + t.out.h

Renders(field, v) ==
    /\ Unknown(field) <=> v = None
    /\ v # None => ValueOf(field) = PyInt(v)

\* C8 amended: a persisted document carries each extracted count as its
\* integer part, 'n/a' when unknown, without validation; it satisfies the
\* token invariant whenever the usage carries only non-negative integer
\* counts and, if it supplies a total next to input and output, a total
\* equal to their sum.
C8_DocumentKeepsInvariantOfCleanUsage ==
    \A p \in Procs :
        (Finished(p) /\ st[p].term = "written") =>
            /\ outFile.k = "doc"
            /\ Renders(DocInput(outFile), st[p].toks.inp)
            /\ Renders(DocOutput(outFile), st[p].toks.out)
            /\ Renders(DocTotal(outFile), st[p].toks.tot)
            /\ CleanUsage(p) => TokenInvariant(outFile)

C8_Witness ==
    \E p \in Procs :
        /\ Finished(p) /\ st[p].term = "written"
        /\ CleanUsage(p)
        /\ Present3(outFile)
        /\ ~TotalSupplied(p)
        /\ ValueOf(DocTotal(outFile)) = 1235801

---------------------------------------------------------------------------
(* C9 *)

\* C9: the footer of every persisted document is found by parse_token_line,
\* for every combination of known and unknown counts, and for the known
\* counts the parser returns the integers the pipeline rendered.
C9_ScannerParsesEveryFooter ==
    \A p \in Procs :
        (Finished(p) /\ st[p].term = "written") =>
            LET r == parse_token_line(outFile.text)
                t == st[p].toks
            IN /\ r.found
               /\ t.inp # None => r.inp = PyInt(t.inp)
               /\ t.out # None => r.out = PyInt(t.out)
               /\ t.tot # None => r.tot = PyInt(t.tot)

---------------------------------------------------------------------------
(* C10 *)

\* C10: the write is the last step: until a run reaches the write itself the
\* output path is as the run found it, so a run that ends with an argument,
\* not-found, read, configuration, remote-call or rendering failure (a forced
\* one over an existing document included) leaves the output unchanged.
C10_OutputUntouchedBeforeWrite ==
    \A p \in Procs :
        (Started(p) /\ st[p].term \notin {"written", "write-failed"})
        => /\ outFile = st[p].file0
           /\ Finished(p) => (st[p].exit \in {0, 1, 2, 3, 4, 5, 7} /\ ~Reached(p, "rendered"))

C10_Witness ==
    \E p \in Procs :
        /\ Finished(p) /\ st[p].force /\ st[p].file0.k = "doc"
        /\ st[p].term = "call-failed" /\ st[p].exit = 5
        /\ outFile = st[p].file0

---------------------------------------------------------------------------
(* C11 *)

\* C11: a run issues at most one remote call; a failed call is not retried,
\* it ends the run with exit signal 5, and neither usage extraction nor
\* rendering nor the write follows it.
C11_SingleCallNoRetry ==
    \A p \in Procs :
        /\ st[p].calls <= 1
        /\ st[p].calls = 1 <=> (Reached(p, "remote-call-complete") \/ st[p].term = "call-failed")
        /\ st[p].term = "call-failed" =>
              /\ Finished(p)
              /\ st[p].exit = 5
              /\ st[p].calls = 1
              /\ ~Reached(p, "remote-call-complete")
              /\ ~Reached(p, "metrics-extracted")
              /\ ~Reached(p, "rendered")
              /\ st[p].toks = NoTokens
              /\ st[p].markdown = <<>>
              /\ outFile = st[p].file0

C11_Witness ==
    \E p \in Procs :
        /\ Finished(p) /\ st[p].term = "call-failed" /\ st[p].exit = 5
        /\ st[p].calls = 1 /\ ~st[p].force /\ outFile.k = "absent"

---------------------------------------------------------------------------
(* C12 *)

\* C12: the existence check and the write are separate steps with no lock
\* between them: a run that has passed the check and rendered its document
\* can always write it over whatever the output path holds by then, so two
\* unforced invocations that both found no output both call the service and
\* both write, the later write replacing the earlier one (C12_Witness).
C12_WriteNeverLooksAgain ==
    \A p \in Procs :
        st[p].pc = "rendered" =>
            ENABLED (/\ WriteOutput(p)
                     /\ st'[p].term = "written"
                     /\ outFile' = [k |-> "doc", text |-> st[p].markdown])

C12_Witness ==
    \E p, q \in Procs :
        /\ p # q
        /\ nruns = 2
        /\ Finished(p) /\ Finished(q)
        /\ ~st[p].force /\ ~st[q].force
        /\ st[p].file0 = NoFile /\ st[q].file0 = NoFile
        /\ Reached(p, "proceed") /\ Reached(q, "proceed")
        /\ st[p].calls = 1 /\ st[q].calls = 1
        /\ st[p].term = "written" /\ st[q].term = "written"
        /\ nwrites = 2
        /\ outFile.text = st[q].markdown
        /\ outFile.text # st[p].markdown

---------------------------------------------------------------------------
(* C13 *)

\* C13: whenever an unforced run ends with the already-exists skip, the
\* output path holds a complete document, written by an earlier run that
\* ended in the written state; what a run that ended in write-failed left
\* there is never taken for a generated summary.
C13_SkipOnlyOverCompleteDocument ==
    \A p \in Procs :
        (Finished(p) /\ st[p].term = "skip") =>
            /\ st[p].exit = 0
            /\ ~st[p].force
            /\ outFile.k = "doc"
            /\ outFile = st[p].file0

====
